---- MODULE Spec2Model ----
(***************************************************************************)
(* A model of egui's DragValue widget (crates/egui/src/widgets/            *)
(* drag_value.rs): the shared MonoState, the per-frame widget update       *)
(* DragValue::ui, MonoState::end_frame and the helper clamp_to_range.      *)
(*                                                                         *)
(* f64 values are modelled as fixed-point numbers with Scale units per 1.0 *)
(* in a sign-magnitude encoding that keeps -0.0, the infinities and NaN:   *)
(* a value is the integer key that f64::total_cmp orders by.               *)
(*   key k >= 0 : sign bit clear, magnitude k                              *)
(*   key k <  0 : sign bit set,   magnitude -k - 1                         *)
(* Magnitude InfMag is infinity, any larger magnitude is NaN.              *)
(***************************************************************************)
EXTENDS Integers, Sequences, FiniteSets, TLC

\* ------------------------------------------------------------------------
\* f64
\* ------------------------------------------------------------------------

\* Fixed-point units per 1.0 (two decimal digits of resolution).
Scale == 100

\* Magnitude that stands for infinity; finite magnitudes are below it.
InfMag == 1000000

Mag(k) == IF k >= 0 THEN k ELSE -k - 1
IsNegative(k) == k < 0
WithSign(neg, m) == IF neg THEN -m - 1 ELSE m

\* The key of the finite number of n units (the positive zero for n = 0).
F(n) == IF n >= 0 THEN n ELSE n - 1
PosZero == WithSign(FALSE, 0)
NegZero == WithSign(TRUE, 0)
PosInf == WithSign(FALSE, InfMag)
NegInf == WithSign(TRUE, InfMag)
NaN == WithSign(FALSE, InfMag + 1)
NegNaN == WithSign(TRUE, InfMag + 1)

IsNaN(k) == Mag(k) > InfMag
IsInf(k) == Mag(k) = InfMag
IsFinite(k) == Mag(k) < InfMag

\* The extended number a non-NaN key denotes, in units (both zeros give 0).
Num(k) == IF k >= 0 THEN k ELSE k + 1

\* IEEE comparisons (==, !=, <=): NaN is unordered, -0.0 == +0.0.
FEq(a, b) == ~IsNaN(a) /\ ~IsNaN(b) /\ Num(a) = Num(b)
FNe(a, b) == ~FEq(a, b)
FLe(a, b) == ~IsNaN(a) /\ ~IsNaN(b) /\ Num(a) <= Num(b)

\* f64::total_cmp: the order of the keys.
total_cmp(a, b) == IF a < b THEN "Less" ELSE IF a = b THEN "Equal" ELSE "Greater"

\* Unary minus and abs flip/clear the sign bit.
FNeg(a) == WithSign(~IsNegative(a), Mag(a))
FAbs(a) == Mag(a)

\* A finite result of n units whose zero takes the sign negzero; overflow
\* gives an infinity.
FromNum(n, negzero) ==
    IF n = 0 THEN WithSign(negzero, 0)
    ELSE IF n >= InfMag THEN PosInf
    ELSE IF n <= -InfMag THEN NegInf
    ELSE F(n)

\* a + b (round-to-nearest mode: an exact zero sum is +0 unless both are -0).
FAdd(a, b) ==
    IF IsNaN(a) THEN a
    ELSE IF IsNaN(b) THEN b
    ELSE IF IsInf(a) /\ IsInf(b) THEN (IF a = b THEN a ELSE NaN)
    ELSE IF IsInf(a) THEN a
    ELSE IF IsInf(b) THEN b
    ELSE FromNum(Num(a) + Num(b), IsNegative(a) /\ IsNegative(b))

FSub(a, b) == FAdd(a, FNeg(b))

\* (points as f64) * b, for a whole number of points p: the sign of a zero
\* product is the xor of the signs.
FMulInt(p, b) ==
    IF IsNaN(b) THEN b
    ELSE IF IsInf(b) THEN (IF p = 0 THEN NaN ELSE WithSign((p < 0) # IsNegative(b), InfMag))
    ELSE FromNum(p * Num(b), (p < 0) # IsNegative(b))

\* a * b for two fixed-point values; the product is exact for the values the
\* model multiplies (aim radius and speed).
FMul(a, b) ==
    IF IsNaN(a) THEN a
    ELSE IF IsNaN(b) THEN b
    ELSE IF IsInf(a) \/ IsInf(b)
         THEN (IF Mag(a) = 0 \/ Mag(b) = 0 THEN NaN
               ELSE WithSign(IsNegative(a) # IsNegative(b), InfMag))
    ELSE WithSign(IsNegative(a) # IsNegative(b), (Mag(a) * Mag(b)) \div Scale)

\* speed / 10.0
SlowDivisor == 10
FDivSlow(a) ==
    IF ~IsFinite(a) THEN a ELSE WithSign(IsNegative(a), Mag(a) \div SlowDivisor)

RECURSIVE Pow10(_)
Pow10(n) == IF n <= 0 THEN 1 ELSE 10 * Pow10(n - 1)

\* The number of decimal digits a unit resolves.
ScaleDigits == CHOOSE d \in 0..9 : Pow10(d) = Scale

RECURSIVE Pow2(_)
Pow2(n) == IF n = 0 THEN 1 ELSE 2 * Pow2(n - 1)

\* The largest whole number the model's f64 holds.
MaxWhole == (InfMag - 1) \div Scale

\* ------------------------------------------------------------------------
\* clamp_to_range
\* ------------------------------------------------------------------------

\* The clamp written with the partial order of <= and >= (f64::clamp's).
clamp_to_range_partial(x, start, end) ==
    LET swap == ~FLe(start, end)
        min == IF swap THEN end ELSE start
        max == IF swap THEN start ELSE end
    IN  IF IsNaN(x) THEN x
        ELSE IF ~FLe(min, x) THEN min
        ELSE IF ~FLe(x, max) THEN max
        ELSE x

clamp_to_range(x, start, end) ==
    LET swap == total_cmp(start, end) = "Greater"
        min == IF swap THEN end ELSE start
        max == IF swap THEN start ELSE end
    IN  IF total_cmp(x, min) \in {"Less", "Equal"} THEN min
        ELSE IF total_cmp(x, max) \in {"Greater", "Equal"} THEN max
        ELSE x

\* ------------------------------------------------------------------------
\* Text: a string is a sequence of one-character strings.
\* ------------------------------------------------------------------------

Digits == <<"0", "1", "2", "3", "4", "5", "6", "7", "8", "9">>
DigitChar(d) == Digits[d + 1]
IsDigit(c) == \E d \in 0..9 : Digits[d + 1] = c
DigitVal(c) == CHOOSE d \in 0..9 : Digits[d + 1] = c

RECURSIVE NatToText(_)
NatToText(n) ==
    IF n < 10 THEN <<DigitChar(n)>>
    ELSE NatToText(n \div 10) \o <<DigitChar(n % 10)>>

\* n written with exactly w digits (n < 10^w), zero-padded on the left.
RECURSIVE PadDigits(_, _)
PadDigits(n, w) ==
    IF w = 0 THEN <<>>
    ELSE PadDigits(n \div 10, w - 1) \o <<DigitChar(n % 10)>>

RECURSIVE DigitsToNat(_)
DigitsToNat(t) ==
    IF t = <<>> THEN 0
    ELSE 10 * DigitsToNat(SubSeq(t, 1, Len(t) - 1)) + DigitVal(t[Len(t)])

AllDigits(t) == \A i \in 1..Len(t) : IsDigit(t[i])

\* m / q rounded to the nearest whole number, ties to even.
RoundHalfEven(m, q) ==
    LET lo == m \div q
        r == m % q
    IN  IF 2 * r < q THEN lo
        ELSE IF 2 * r > q THEN lo + 1
        ELSE IF lo % 2 = 0 THEN lo ELSE lo + 1

\* m / q rounded to the nearest whole number, ties away from zero
\* (f64::round on a magnitude).
RoundHalfAway(m, q) == (2 * m + q) \div (2 * q)

RECURSIVE Zeros(_)
Zeros(n) == IF n <= 0 THEN <<>> ELSE <<"0">> \o Zeros(n - 1)

\* format!("{:.*}", decimals, value)
FormatFixed(k, decimals) ==
    IF IsNaN(k) THEN <<"N", "a", "N">>
    ELSE IF IsInf(k) THEN (IF IsNegative(k) THEN <<"-">> ELSE <<>>) \o <<"i", "n", "f">>
    ELSE
        LET m == Mag(k)
            sign == IF IsNegative(k) THEN <<"-">> ELSE <<>>
        IN  IF decimals >= ScaleDigits
            THEN sign \o NatToText(m \div Scale) \o <<".">>
                 \o PadDigits(m % Scale, ScaleDigits) \o Zeros(decimals - ScaleDigits)
            ELSE LET whole == RoundHalfEven(m, Pow10(ScaleDigits - decimals))
                     unit == Pow10(decimals)
                 IN  sign \o NatToText(whole \div unit)
                     \o (IF decimals = 0 THEN <<>>
                         ELSE <<".">> \o PadDigits(whole % unit, decimals))

\* str::parse::<f64>() for texts over the characters the model types:
\* an optional sign, then "inf", "NaN", or digits with at most one point.
\* The result is <<>> for Err and <<value>> for Ok(value).
ParseUnsigned(t, neg) ==
    IF t = <<"i", "n", "f">> THEN <<WithSign(neg, InfMag)>>
    ELSE IF t = <<"N", "a", "N">> THEN <<WithSign(neg, InfMag + 1)>>
    ELSE
        LET dots == {i \in 1..Len(t) : t[i] = "."}
            dot == IF dots = {} THEN Len(t) + 1 ELSE CHOOSE i \in dots : TRUE
            ip == SubSeq(t, 1, dot - 1)
            fp == SubSeq(t, dot + 1, Len(t))
            kept == SubSeq(fp, 1, IF Len(fp) < ScaleDigits THEN Len(fp) ELSE ScaleDigits)
            fracUnits == DigitsToNat(kept) * Pow10(ScaleDigits - Len(kept))
            up == IF Len(fp) > ScaleDigits /\ DigitVal(fp[ScaleDigits + 1]) >= 5
                  THEN 1 ELSE 0
            m == DigitsToNat(ip) * Scale + fracUnits + up
        IN  IF Cardinality(dots) > 1 \/ ~AllDigits(ip) \/ ~AllDigits(fp)
               \/ Len(ip) + Len(fp) = 0
            THEN <<>>
            ELSE <<WithSign(neg, IF m >= InfMag THEN InfMag ELSE m)>>

ParseF64(t) ==
    IF t = <<>> THEN <<>>
    ELSE IF t[1] = "-" THEN ParseUnsigned(Tail(t), TRUE)
    ELSE IF t[1] = "+" THEN ParseUnsigned(Tail(t), FALSE)
    ELSE ParseUnsigned(t, FALSE)

Min2(a, b) == IF a <= b THEN a ELSE b

\* emath::format_with_decimals_in_range: the fewest decimals in
\* [min_decimals, max_decimals) that show the value exactly, else max_decimals.
FormatMaxDecimals == 16
format_with_decimals_in_range(k, min_decimals, max_decimals) ==
    LET maxd == Min2(max_decimals, FormatMaxDecimals)
        mind == Min2(min_decimals, maxd)
        exact == {d \in mind..(maxd - 1) :
                    \E text \in {FormatFixed(k, d)} :
                    \E p \in {ParseF64(text)} : p # <<>> /\ FEq(p[1], k)}
    IN  IF exact # {}
        THEN FormatFixed(k, CHOOSE d \in exact : \A e \in exact : d <= e)
        ELSE FormatFixed(k, maxd)

\* emath::round_to_decimals: (value * 10^decimals).round() / 10^decimals
round_to_decimals(k, decimals) ==
    IF ~IsFinite(k) THEN k
    ELSE IF decimals >= ScaleDigits THEN k
    ELSE LET q == Pow10(ScaleDigits - decimals)
         IN  WithSign(IsNegative(k), RoundHalfAway(Mag(k), q) * q)

\* ------------------------------------------------------------------------
\* Option<T>: <<>> is None, <<x>> is Some(x).
\* ------------------------------------------------------------------------

None == <<>>
Some(x) == <<x>>
unwrap_or(o, d) == IF o = None THEN d ELSE o[1]

\* ------------------------------------------------------------------------
\* Precision (DragValue::ui, the decimals it formats and rounds with)
\* ------------------------------------------------------------------------

MaxAutoDecimals == 15
AutoHeadroom == 2

\* The least n in 0..MaxAutoDecimals with ratio <= 10^n for ratio = a / b,
\* else MaxAutoDecimals: ceil(log10(ratio)) clamped to [0, 15].
RECURSIVE LogCeil(_, _, _)
LogCeil(a, b, n) ==
    IF n >= MaxAutoDecimals \/ a <= b THEN n ELSE LogCeil(a, b * 10, n + 1)

\* The inference with the ratio upside down: speed.abs() / aim_rad.
auto_decimals_inverted(aim_rad, speed) ==
    IF IsNaN(speed) \/ IsNaN(aim_rad) THEN 0
    ELSE IF IsNegative(aim_rad) THEN 0
    ELSE IF Mag(aim_rad) = 0 THEN (IF Mag(speed) = 0 THEN 0 ELSE MaxAutoDecimals)
    ELSE IF IsInf(aim_rad) THEN 0
    ELSE IF IsInf(speed) THEN MaxAutoDecimals
    ELSE LogCeil(Mag(speed), Mag(aim_rad), 0)

\* (aim_rad / speed.abs()).log10().ceil().clamp(0.0, 15.0) as usize
\* (log10 of a negative ratio or of NaN is NaN, and NaN as usize is 0)
auto_decimals_raw(aim_rad, speed) ==
    IF IsNaN(speed) \/ IsNaN(aim_rad) THEN 0
    ELSE IF IsNegative(aim_rad) THEN 0
    ELSE IF Mag(speed) = 0 THEN (IF Mag(aim_rad) = 0 THEN 0 ELSE MaxAutoDecimals)
    ELSE IF IsInf(speed) THEN 0
    ELSE IF IsInf(aim_rad) THEN MaxAutoDecimals
    ELSE LogCeil(Mag(aim_rad), Mag(speed), 0)

\* max_decimals.unwrap_or(auto_decimals + 2)
effective_max_decimals(max_decimals, auto) == unwrap_or(max_decimals, auto + AutoHeadroom)

\* usize::clamp(min, max) panics when min > max.
clamp_panics(min, max) == min > max
usize_clamp(x, min, max) == IF x < min THEN min ELSE IF x > max THEN max ELSE x

\* Lines 381-385: [panic, auto_decimals, max_decimals] for one update.
Precision(c, aim_rad, is_slow_speed) ==
    LET auto0 == auto_decimals_raw(aim_rad, c.speed) + (IF is_slow_speed THEN 1 ELSE 0)
        maxd == effective_max_decimals(c.max_decimals, auto0)
    IN  [panic |-> clamp_panics(c.min_decimals, maxd),
         inferred |-> auto0,
         auto_decimals |-> usize_clamp(auto0, c.min_decimals, maxd),
         max_decimals |-> maxd]

\* ------------------------------------------------------------------------
\* The integer presets: i64 texts in a radix
\* ------------------------------------------------------------------------

I64Bits == 64

RadixDigits ==
    <<"0", "1", "2", "3", "4", "5", "6", "7", "8", "9", "a", "b", "c", "d", "e", "f">>
UpperDigits ==
    <<"0", "1", "2", "3", "4", "5", "6", "7", "8", "9", "A", "B", "C", "D", "E", "F">>

\* char::to_digit(radix): letters count in either case.
IsRadixDigit(c, radix) ==
    \E d \in 0..(radix - 1) : RadixDigits[d + 1] = c \/ UpperDigits[d + 1] = c
RadixDigitVal(c) == CHOOSE d \in 0..15 : RadixDigits[d + 1] = c \/ UpperDigits[d + 1] = c

RECURSIVE NatToRadix(_, _)
NatToRadix(n, radix) ==
    IF n < radix THEN <<RadixDigits[n + 1]>>
    ELSE NatToRadix(n \div radix, radix) \o <<RadixDigits[(n % radix) + 1]>>

\* The digits' value, saturating at cap.
RECURSIVE RadixToNat(_, _, _)
RadixToNat(t, radix, cap) ==
    IF t = <<>> THEN 0
    ELSE Min2(cap, radix * RadixToNat(SubSeq(t, 1, Len(t) - 1), radix, cap)
                   + RadixDigitVal(t[Len(t)]))

RECURSIVE Ones(_)
Ones(n) == IF n <= 0 THEN <<>> ELSE <<"1">> \o Ones(n - 1)

\* {:0>width$}: zeros on the left up to the width.
PadLeft(t, width) == Zeros(width - Len(t)) \o t

FlipBits(t) == [i \in 1..Len(t) |-> IF t[i] = "0" THEN "1" ELSE "0"]

RECURSIVE StripZeros(_)
StripZeros(t) == IF Len(t) > 1 /\ t[1] = "0" THEN StripZeros(Tail(t)) ELSE t

\* The bits of `n as i64`: `as` truncates toward zero, takes NaN to 0 and
\* saturates; a negative i64 is its 64 two's complement bits.
I64BitsOf(k) ==
    IF IsNaN(k) THEN <<"0">>
    ELSE IF IsInf(k)
    THEN (IF IsNegative(k) THEN <<"1">> \o Zeros(I64Bits - 1) ELSE Ones(I64Bits - 1))
    ELSE LET m == Mag(k) \div Scale
         IN  IF IsNegative(k) /\ m > 0
             THEN FlipBits(PadLeft(NatToRadix(m - 1, 2), I64Bits))
             ELSE NatToRadix(m, 2)

\* log2 of the radix: the bits one digit stands for.
DigitBits(radix) == CASE radix = 2 -> 1 [] radix = 8 -> 3 [] radix = 16 -> 4

\* The digits of a bit string in a radix that is a power of two.
RECURSIVE GroupBits(_, _)
GroupBits(bits, b) ==
    IF bits = <<>> THEN <<>>
    ELSE LET padded == PadLeft(bits, ((Len(bits) + b - 1) \div b) * b)
             head == SubSeq(padded, 1, Len(padded) - b)
             low == SubSeq(padded, Len(padded) - b + 1, Len(padded))
         IN  GroupBits(head, b) \o <<RadixDigits[RadixToNat(low, 2, 16) + 1]>>

ToUpper(t) ==
    [i \in 1..Len(t) |-> UpperDigits[(CHOOSE d \in 0..15 : RadixDigits[d + 1] = t[i]) + 1]]

\* format!("{:b}", n as i64), "{:o}", "{:x}", "{:X}"
FormatI64(k, radix, upper) ==
    LET lower == StripZeros(GroupBits(I64BitsOf(k), DigitBits(radix)))
    IN  IF upper THEN ToUpper(lower) ELSE lower

FormatI64Binary(k) == FormatI64(k, 2, FALSE)

\* Lines 267-274, 302-309, 337-352: the formatter a preset installs.
preset_formatter(k, f) ==
    IF f.twos_complement THEN PadLeft(FormatI64(k, f.radix, f.upper), f.min_width)
    ELSE (IF ~IsNaN(k) /\ IsNegative(k) /\ Mag(k) > 0 THEN <<"-">> ELSE <<>>)
         \o PadLeft(FormatI64(FAbs(k), f.radix, f.upper), f.min_width)

\* Lines 268-274: the formatter DragValue::binary installs.
binary_formatter(k, min_width, twos_complement) ==
    preset_formatter(k, [radix |-> 2, min_width |-> min_width,
                         twos_complement |-> twos_complement, upper |-> FALSE])

\* 2^63 in the radix: its leading digit, then zeros.
I64MinDigits(radix) ==
    LET b == DigitBits(radix)
    IN  <<RadixDigits[Pow2((I64Bits - 1) % b) + 1]>> \o Zeros((I64Bits - 1) \div b)

\* Digit strings of one length compare as their numbers do.
DigitsLess(s, t) ==
    \E i \in 1..Len(s) :
        /\ \A j \in 1..(i - 1) : RadixDigitVal(s[j]) = RadixDigitVal(t[j])
        /\ RadixDigitVal(s[i]) < RadixDigitVal(t[i])

\* The digits are a number the sign's side of i64 cannot hold.
I64Overflows(digits, radix, negative) ==
    LET d == StripZeros(digits)
        limit == I64MinDigits(radix)
    IN  \/ Len(d) > Len(limit)
        \/ Len(d) = Len(limit) /\ ~DigitsLess(d, limit)
                               /\ ~(negative /\ [i \in 1..Len(d) |-> RadixDigits[RadixDigitVal(d[i]) + 1]] = limit)

\* i64::from_str_radix(s, radix).map(|n| n as f64).ok(): an optional sign,
\* then one or more digits of the radix, Err when i64 overflows. A whole
\* number above the model's largest is taken as the largest.
from_str_radix(t, radix) ==
    LET signed == t # <<>> /\ t[1] \in {"+", "-"}
        body == IF signed THEN Tail(t) ELSE t
        negative == signed /\ t[1] = "-"
    IN  IF body = <<>> \/ \E i \in 1..Len(body) : ~IsRadixDigit(body[i], radix)
        THEN <<>>
        ELSE IF I64Overflows(body, radix, negative) THEN <<>>
        ELSE <<FromNum((IF negative THEN -1 ELSE 1)
                        * RadixToNat(body, radix, MaxWhole) * Scale, FALSE)>>

\* Lines 386-395: the text of the value.
value_text_of(c, v, auto, maxd) ==
    IF c.custom_formatter # None
    THEN preset_formatter(v, c.custom_formatter[1])
    ELSE IF FEq(v, PosZero) THEN <<"0">>
    ELSE format_with_decimals_in_range(v, auto, maxd)

\* Lines 414-417: the custom parser if there is one, else str::parse.
parse_text(c, t) ==
    IF c.custom_parser # None THEN from_str_radix(t, c.custom_parser[1].radix)
    ELSE ParseF64(t)

\* ------------------------------------------------------------------------
\* emath::smart_aim::best_in_range_f64: some value of the interval it is
\* given. The candidates are the ends, the middle and the multiples of
\* AimGrid units inside.
\* ------------------------------------------------------------------------

AimGrid == 50

best_in_range_f64(a, b) ==
    IF IsNaN(a) THEN {b}
    ELSE IF IsNaN(b) THEN {a}
    ELSE LET lo == IF FLe(a, b) THEN a ELSE b
             hi == IF FLe(a, b) THEN b ELSE a
         IN  IF ~IsFinite(lo) \/ ~IsFinite(hi) THEN {lo, hi}
             ELSE {lo, hi, F((Num(lo) + Num(hi)) \div 2)}
                  \cup {F(n) : n \in {m \in Num(lo)..Num(hi) : m % AimGrid = 0}}

\* ------------------------------------------------------------------------
\* State
\* ------------------------------------------------------------------------

VARIABLES
    cfg,                 \* per widget shown: the builder's fields
    aim_radius,          \* InputState::aim_radius() of the display
    user,                \* what the user does: the texts typed, whether Shift is used
    value,               \* per widget: the storage its accessor reads and writes
    focus,               \* Memory: the id holding keyboard focus, or None
    last_dragged_id,     \* MonoState.last_dragged_id
    last_dragged_value,  \* MonoState.last_dragged_value
    edit_string,         \* MonoState.edit_string
    input,               \* InputState: what the frame's widgets have read of the snapshot
    inFrame,             \* between begin of frame and end_frame
    ran,                 \* the widgets updated in this frame
    crashed,             \* a panic unwound out of DragValue::ui
    last,                \* what the latest step read, wrote and returned
    gesture,             \* history: the drag gesture in progress (widget, running value)
    editing,             \* history: the widget in a text-editing session
    carry,               \* history: the widget that keeps the focus since it was clicked
                         \* or edited, and the text its edit frame left
    cx, clo, chi, cres,  \* clamp_to_range on its own: arguments and result
    out                  \* builders and pure functions on their own: call and result

vars == <<cfg, aim_radius, user, value, focus, last_dragged_id, last_dragged_value, edit_string,
          input, inFrame, ran, crashed, last, gesture, editing, carry,
          cx, clo, chi, cres, out>>

mono == <<last_dragged_id, last_dragged_value, edit_string>>
clampVars == <<cx, clo, chi, cres>>
frameVars == <<last_dragged_id, last_dragged_value, edit_string, focus, input, inFrame, ran,
               last, gesture, editing, carry>>
widgetVars == <<cfg, aim_radius, user, value, focus, last_dragged_id, last_dragged_value,
                edit_string, input, inFrame, ran, crashed, last, gesture, editing, carry>>

\* The DragValues a window shows; a widget's Id is its number.
Shown == DOMAIN cfg

\* ------------------------------------------------------------------------
\* Bounds of the model
\* ------------------------------------------------------------------------

\* Largest pointer movement per axis in one frame, in points.
MaxDelta == 1
\* Largest number of presses of one arrow key in one frame.
MaxPresses == 1
\* Largest magnitude, in units, of a finite running or nudged value.
MaxAcc == 100

\* The builder's fields: DragValue::from_get_set's defaults, changed by
\* speed, clamp_range, min_decimals, max_decimals and fixed_decimals.
DefaultConfig ==
    [speed |-> F(Scale), lo |-> NegInf, hi |-> PosInf,
     min_decimals |-> 0, max_decimals |-> None,
     custom_formatter |-> None, custom_parser |-> None, assert_failed |-> FALSE]

with_speed(c, speed) == [c EXCEPT !.speed = speed]
with_clamp_range(c, lo, hi) == [c EXCEPT !.lo = lo, !.hi = hi]
with_min_decimals(c, n) == [c EXCEPT !.min_decimals = n]
with_max_decimals(c, n) == [c EXCEPT !.max_decimals = Some(n)]
with_fixed_decimals(c, n) == [c EXCEPT !.min_decimals = n, !.max_decimals = Some(n)]

\* The preset installed whatever the width.
preset_unchecked(c, radix, min_width, twos_complement, upper) ==
    [c EXCEPT !.custom_formatter = Some([radix |-> radix, min_width |-> min_width,
                                         twos_complement |-> twos_complement,
                                         upper |-> upper]),
              !.custom_parser = Some([radix |-> radix])]

\* The body the three presets share: the assert on min_width, then
\* custom_formatter and custom_parser. A failed assert unwinds out of the
\* builder: the fields stay as they were.
preset(c, radix, min_width, twos_complement, upper) ==
    IF min_width > 0
    THEN [c EXCEPT !.custom_formatter = Some([radix |-> radix, min_width |-> min_width,
                                               twos_complement |-> twos_complement,
                                               upper |-> upper]),
                   !.custom_parser = Some([radix |-> radix])]
    ELSE [c EXCEPT !.assert_failed = TRUE]

\* Lines 262-276: DragValue::binary
binary(c, min_width, twos_complement) == preset(c, 2, min_width, twos_complement, FALSE)

\* Lines 297-311: DragValue::octal
octal(c, min_width, twos_complement) == preset(c, 8, min_width, twos_complement, FALSE)

\* Lines 332-354: DragValue::hexadecimal
hexadecimal(c, min_width, twos_complement, upper) ==
    preset(c, 16, min_width, twos_complement, upper)

\* The windows the model starts from: the configurations of the widgets
\* shown, the values bound to them, the aim radius of the display, the
\* texts the user types and whether the user holds Shift.
Windows ==
    {[cfg |-> <<with_max_decimals(with_clamp_range(DefaultConfig, PosZero, F(Scale)), 0),
                with_max_decimals(with_clamp_range(DefaultConfig, PosZero, F(-Scale)), 0)>>,
      value |-> <<F(3 * Scale), NegZero>>,
      aim_radius |-> PosZero,
      texts |-> {},
      shift |-> {FALSE}],
     [cfg |-> <<with_max_decimals(with_clamp_range(DefaultConfig, PosZero, F(Scale)), 0)>>,
      value |-> <<NegZero>>,
      aim_radius |-> F(Scale),
      texts |-> {<<"0", ".", "5">>, <<"x">>, <<"-", "0">>},
      shift |-> BOOLEAN],
     [cfg |-> <<with_fixed_decimals(DefaultConfig, 0)>>,
      value |-> <<NaN>>,
      aim_radius |-> PosZero,
      texts |-> {<<>>, <<"N", "a", "N">>, <<"-", "1">>},
      shift |-> {FALSE}],
     [cfg |-> <<with_max_decimals(with_min_decimals(DefaultConfig, 1), 0)>>,
      value |-> <<F(Scale)>>,
      aim_radius |-> F(Scale),
      texts |-> {<<"1">>},
      shift |-> BOOLEAN],
     [cfg |-> <<with_min_decimals(with_clamp_range(DefaultConfig, F(Scale), F(Scale)), 3)>>,
      value |-> <<F(Scale)>>,
      aim_radius |-> F(Scale),
      texts |-> {},
      shift |-> BOOLEAN],
     [cfg |-> <<with_max_decimals(
                  with_clamp_range(with_speed(DefaultConfig, F(-Scale)), PosZero, F(-Scale)),
                  0)>>,
      value |-> <<F(-2 * Scale)>>,
      aim_radius |-> F(Scale),
      texts |-> {<<"x">>},
      shift |-> BOOLEAN],
     [cfg |-> <<with_min_decimals(with_speed(DefaultConfig, PosZero), 3)>>,
      value |-> <<F(Scale \div 2)>>,
      aim_radius |-> PosZero,
      texts |-> {<<"1">>, <<"x">>},
      shift |-> BOOLEAN],
     [cfg |-> <<with_clamp_range(DefaultConfig, NegZero, F(Scale))>>,
      value |-> <<F(-Scale)>>,
      aim_radius |-> F(Scale),
      texts |-> {<<"0", ".", "5">>},
      shift |-> {FALSE}],
     [cfg |-> <<binary(with_clamp_range(DefaultConfig, F(-Scale), F(2 * Scale)), 3, FALSE)>>,
      value |-> <<F(2 * Scale)>>,
      aim_radius |-> F(Scale),
      texts |-> {<<"1", "1">>, <<"2">>},
      shift |-> {FALSE}]}

NoArrows == [up |-> 0, right |-> 0, down |-> 0, left |-> 0]

\* The arrow presses of a frame: none, one key, or two that cancel out.
ArrowInputs ==
    {NoArrows}
    \cup {[NoArrows EXCEPT !.up = n] : n \in 1..MaxPresses}
    \cup {[NoArrows EXCEPT !.down = n] : n \in 1..MaxPresses}
    \cup {[NoArrows EXCEPT !.left = n] : n \in 1..MaxPresses}
    \cup {[NoArrows EXCEPT !.right = n, !.left = n] : n \in 1..MaxPresses}

\* The pointer edges of a frame.
PointerInputs == [any_pressed : BOOLEAN, any_released : BOOLEAN]

\* The snapshot of a frame is fixed when the frame begins; the model settles
\* a field of it when a widget first reads it (None: not read yet).
UnreadInput == [shift_only |-> None, enter |-> None, arrows |-> None]
Read(field, all) == IF field = None THEN all ELSE {field[1]}

\* What the user can leave in the text surface: the text as it was, or one
\* of the window's texts.
Keep == <<"keep">>

NoPrecision == [panic |-> FALSE, inferred |-> 0, auto_decimals |-> 0, max_decimals |-> 0]

NoResponse == [clicked |-> FALSE, dragged |-> FALSE, has_focus |-> FALSE]

NoLast ==
    [op |-> "none", w |-> 0, mode |-> "-", old_value |-> PosZero, value0 |-> PosZero,
     final |-> PosZero, changed |-> FALSE, writes |-> <<>>,
     pre_id |-> None, pre_val |-> None, pre_edit |-> None,
     seed |-> <<>>, text |-> <<>>, value_text |-> <<>>, parsed |-> None,
     enter |-> FALSE, entering |-> FALSE,
     accumulated |-> FALSE, baseline |-> PosZero,
     delta_points |-> 0, delta_value |-> PosZero, same_gesture |-> FALSE,
     prec |-> NoPrecision, slow |-> FALSE, any_pressed |-> FALSE, any_released |-> FALSE,
     resp |-> NoResponse, being_dragged |-> FALSE, had_focus |-> FALSE, carry |-> None,
     moved |-> FALSE, aim_delta |-> PosZero, stored |-> PosZero, change |-> 0]

InitWindow(win) ==
    /\ cfg = win.cfg
    /\ value = win.value
    /\ aim_radius = win.aim_radius
    /\ user = [texts |-> win.texts, shift |-> win.shift]
    /\ focus = None
    /\ last_dragged_id = None
    /\ last_dragged_value = None
    /\ edit_string = None
    /\ input = UnreadInput
    /\ inFrame = FALSE
    /\ ran = {}
    /\ crashed = FALSE
    /\ last = NoLast
    /\ gesture = None
    /\ editing = None
    /\ carry = None

Init ==
    /\ \E win \in Windows : InitWindow(win)
    /\ cx = PosZero /\ clo = PosZero /\ chi = PosZero /\ cres = None
    /\ out = None

\* ------------------------------------------------------------------------
\* Memory: keyboard focus
\* ------------------------------------------------------------------------

has_focus(f, id) == f = Some(id)
request_focus(f, id) == Some(id)
surrender_focus(f, id) == IF f = Some(id) THEN None ELSE f

\* ------------------------------------------------------------------------
\* The accessor: get reads the storage, set stores exactly what is written.
\* ------------------------------------------------------------------------

get(w) == value[w]
\* The storage after the writes ws, in order, starting from old.
AfterWrites(old, ws) == IF ws = <<>> THEN old ELSE ws[Len(ws)]

\* ------------------------------------------------------------------------
\* Begin of a frame: the context takes the input snapshot; the focus may
\* have moved (Tab, a click elsewhere).
\* ------------------------------------------------------------------------

\* History: carry lasts while its widget holds the focus.
KeepCarry(f) == IF carry # None /\ f = Some(carry[1].w) THEN carry ELSE None

BeginFrame ==
    /\ ~inFrame /\ ~crashed
    /\ input' = UnreadInput
    /\ \E f \in {None} \cup {Some(w) : w \in Shown} :
        /\ focus' = f
        /\ editing' = IF editing # None /\ f # editing THEN None ELSE editing
        /\ carry' = KeepCarry(f)
    /\ inFrame' = TRUE
    /\ ran' = {}
    /\ last' = NoLast
    /\ UNCHANGED <<cfg, aim_radius, user, value, mono, crashed, gesture, clampVars, out>>

\* ------------------------------------------------------------------------
\* DragValue::ui
\* ------------------------------------------------------------------------

\* An update that leaves an out-of-range value where it is.
initial_clamp_skipped(old_value, v) == <<>>

\* Lines 376-378: the write that brings the storage into the range.
initial_clamp(old_value, v) == IF FNe(old_value, v) THEN <<v>> ELSE <<>>

\* Lines 371-395: the part every update runs first.
\*   being_dragged: ui.memory().is_being_dragged(id) at line 372.
Prelude(w, shift_only, being_dragged) ==
    LET c == cfg[w]
        is_slow_speed == shift_only /\ being_dragged
        old_value == get(w)
        v == clamp_to_range(old_value, c.lo, c.hi)
        prec == Precision(c, aim_radius, is_slow_speed)
    IN  [old_value |-> old_value,
         value |-> v,
         writes |-> initial_clamp(old_value, v),
         is_slow_speed |-> is_slow_speed,
         being_dragged |-> being_dragged,
         resp |-> NoResponse,
         prec |-> prec,
         value_text |-> IF prec.panic THEN <<>>
                        ELSE value_text_of(c, v, prec.auto_decimals, prec.max_decimals)]

\* The flag computed against the value after the initial clamp.
changed_vs_clamped(final, pre) == FNe(final, pre.value)

\* Line 503: response.changed
changed_flag(final, pre) == FNe(final, pre.old_value)

\* The record of one update and the storage after it.
Finish(w, pre, mode, writes, fields) ==
    LET final == AfterWrites(pre.old_value, writes)
    IN  /\ value' = [value EXCEPT ![w] = final]
        /\ last' = [fields EXCEPT
                      !.op = "ui", !.w = w, !.mode = mode,
                      !.old_value = pre.old_value, !.value0 = pre.value,
                      !.final = final, !.changed = changed_flag(final, pre),
                      !.writes = writes,
                      !.pre_id = last_dragged_id, !.pre_val = last_dragged_value,
                      !.pre_edit = edit_string,
                      !.value_text = pre.value_text, !.prec = pre.prec,
                      !.slow = pre.is_slow_speed,
                      !.being_dragged = pre.being_dragged,
                      !.resp = pre.resp,
                      !.had_focus = has_focus(focus, w)]
        /\ ran' = ran \cup {w}
        /\ UNCHANGED <<cfg, aim_radius, user, inFrame, clampVars, out>>

\* Line 385: usize::clamp panics and the update unwinds.
UiPanic(w, pre, inp) ==
    /\ Finish(w, pre, "panic", pre.writes, NoLast)
    /\ crashed' = TRUE
    /\ input' = inp
    /\ UNCHANGED <<focus, mono, gesture, editing, carry>>

\* The text kept whether or not Enter was pressed.
edit_string_kept_on_enter(enter, text) == Some(text)

\* Lines 422-427: what the edit frame leaves in edit_string.
edit_string_after(enter, text) == IF enter THEN None ELSE Some(text)

\* The parsed value written as it is.
parsed_unclamped(parsed, lo, hi) == parsed

\* Lines 418-421: the value an edit frame writes for a parsed text.
parsed_commit(parsed, lo, hi) ==
    IF parsed = None THEN None ELSE Some(clamp_to_range(parsed[1], lo, hi))

\* Lines 400-428: the widget holds text-edit focus.
\*   typed: what the text surface returns (Keep: the text it was given).
UiTextEdit(w, pre, inp, typed, enter) ==
    LET c == cfg[w]
        seed == unwrap_or(edit_string, pre.value_text)
        text == IF typed = Keep THEN seed ELSE typed
        parsed == parse_text(c, text)
        commit == parsed_commit(parsed, c.lo, c.hi)
    IN  /\ Finish(w, pre, "edit", pre.writes \o commit,
                  [NoLast EXCEPT !.seed = seed, !.text = text, !.parsed = parsed,
                                 !.enter = enter, !.entering = (editing # Some(w)),
                                 !.carry = carry])
        /\ focus' = IF enter THEN surrender_focus(focus, w) ELSE focus
        /\ edit_string' = edit_string_after(enter, text)
        /\ editing' = IF enter THEN None ELSE Some(w)
        /\ carry' = IF enter THEN None
                    ELSE Some([w |-> w, kind |-> "edited", text |-> text])
        /\ input' = [inp EXCEPT !.enter = Some(enter)]
        /\ UNCHANGED <<last_dragged_id, last_dragged_value, crashed, gesture>>

\* Lines 449-451: the button was clicked.
UiClick(w, pre, inp) ==
    /\ Finish(w, pre, "click", pre.writes, NoLast)
    /\ focus' = request_focus(focus, w)
    /\ edit_string' = None
    /\ editing' = None
    /\ carry' = Some([w |-> w, kind |-> "clicked", text |-> <<>>])
    /\ input' = inp
    /\ UNCHANGED <<last_dragged_id, last_dragged_value, crashed, gesture>>

\* The baseline taken from the session whoever wrote it.
baseline_ignores_id(w, v) == unwrap_or(last_dragged_value, v)

\* Lines 466-469: the value the drag continues from.
baseline(w, v) ==
    unwrap_or(IF last_dragged_id = Some(w) THEN last_dragged_value ELSE None, v)

\* The session keeping the value that was committed.
stored_rounded(stored_value, rounded_new_value) == rounded_new_value

\* Line 483: what the drag leaves in last_dragged_value.
stored_after(stored_value, rounded_new_value) == stored_value

\* The accumulator run for a drag towards larger values only.
accumulate_positive(delta_value) == FNe(delta_value, PosZero) /\ ~IsNegative(delta_value)

\* The accumulator run on every drag frame.
accumulate_always(delta_value) == TRUE

\* Line 462: the accumulator runs for a nonzero delta only.
accumulate(delta_value) == FNe(delta_value, PosZero)

\* The speed of the drag whatever the modifier.
effective_speed_full(speed, is_slow_speed) == speed

\* Line 458: the speed of the drag.
effective_speed(speed, is_slow_speed) == IF is_slow_speed THEN FDivSlow(speed) ELSE speed

\* The shared state put back without the text.
edit_string_dropped(es) == None

\* Lines 463, 484: the drag takes the whole MonoState out of the memory and
\* puts it back; the edit_string it holds comes back with it.
edit_string_after_drag(es) == es

\* History: (dx - dy) * effective_speed, the amount one drag frame adds.
ExpectedDelta(w, delta_points, slow) ==
    FMulInt(delta_points, IF slow THEN FDivSlow(cfg[w].speed) ELSE cfg[w].speed)

\* Lines 452-485: the button is dragged.
\*   dx, dy: response.drag_delta(), in whole points.
UiDrag(w, pre, inp, f, dx, dy) ==
    LET c == cfg[w]
        delta_points == dx - dy
        moved == dx # 0 \/ dy # 0
        same == gesture # None /\ gesture[1].w = w
        running == FAdd(IF same THEN gesture[1].running ELSE pre.value,
                        ExpectedDelta(w, delta_points, pre.is_slow_speed))
    IN  \E speed \in {effective_speed(c.speed, pre.is_slow_speed)} :
        \E delta_value \in {FMulInt(delta_points, speed)},
           base \in {baseline(w, pre.value)},
           aim_delta \in {FMul(aim_radius, speed)} :
        \E stored_value \in {FAdd(base, delta_value)} :
        IF accumulate(delta_value)
        THEN /\ IsFinite(stored_value) => Mag(stored_value) <= MaxAcc
             /\ IsFinite(running) => Mag(running) <= MaxAcc
             /\ \E picked \in best_in_range_f64(FSub(stored_value, aim_delta),
                                                FAdd(stored_value, aim_delta)) :
                 \E rounded \in {round_to_decimals(picked, pre.prec.auto_decimals)} :
                 \E rounded_new_value \in {clamp_to_range(rounded, c.lo, c.hi)} :
                     /\ Finish(w, pre, "drag", pre.writes \o <<rounded_new_value>>,
                               [NoLast EXCEPT
                                  !.accumulated = TRUE,
                                  !.baseline = base,
                                  !.delta_points = delta_points,
                                  !.delta_value = delta_value,
                                  !.same_gesture = same,
                                  !.moved = moved,
                                  !.aim_delta = aim_delta,
                                  !.stored = stored_value])
                     /\ last_dragged_id' = Some(w)
                     /\ last_dragged_value' = Some(stored_after(stored_value, rounded_new_value))
                     /\ edit_string' = edit_string_after_drag(edit_string)
             /\ gesture' = Some([w |-> w, running |-> running])
             /\ focus' = f
             /\ carry' = KeepCarry(f)
             /\ input' = inp
             /\ UNCHANGED <<crashed, editing>>
        ELSE /\ Finish(w, pre, "drag", pre.writes,
                       [NoLast EXCEPT !.delta_points = delta_points,
                                      !.delta_value = delta_value,
                                      !.moved = moved])
             /\ focus' = f
             /\ carry' = KeepCarry(f)
             /\ input' = inp
             /\ UNCHANGED <<mono, crashed, gesture, editing>>

\* The nudge against the arrows.
nudge_reversed(v, speed, change) == FSub(v, FMulInt(change, speed))

\* Line 492: value + speed * change
nudge(v, speed, change) == FAdd(v, FMulInt(change, speed))

\* Lines 486-498: the button has keyboard focus.
UiFocused(w, pre, inp, f, a) ==
    LET c == cfg[w]
        change == a.up + a.right - a.down - a.left
        new_value == nudge(pre.value, c.speed, change)
        rounded == round_to_decimals(new_value, pre.prec.auto_decimals)
        commit == clamp_to_range(rounded, c.lo, c.hi)
    IN  /\ change # 0 => (IsFinite(new_value) => Mag(new_value) <= MaxAcc)
        /\ Finish(w, pre, "focus", pre.writes \o (IF change # 0 THEN <<commit>> ELSE <<>>),
                  [NoLast EXCEPT !.change = change])
        /\ focus' = f
        /\ carry' = KeepCarry(f)
        /\ input' = [inp EXCEPT !.arrows = Some(a)]
        /\ UNCHANGED <<mono, crashed, gesture, editing>>

UiIdle(w, pre, inp) ==
    /\ Finish(w, pre, "idle", pre.writes, NoLast)
    /\ input' = inp
    /\ UNCHANGED <<focus, mono, crashed, gesture, editing, carry>>

\* What the button reports (lines 437, 449, 452, 486).
Responses == [clicked : BOOLEAN, dragged : BOOLEAN, has_focus : BOOLEAN]
Deltas == (-MaxDelta)..MaxDelta

\* The dispatch with the drag tested before the click.
UiButton_drag_first(w, pre, inp, resp) ==
    LET f == IF resp.has_focus THEN Some(w) ELSE focus
        p == [pre EXCEPT !.resp = resp]
    IN  IF resp.dragged
        THEN \E dx \in Deltas, dy \in Deltas : UiDrag(w, p, inp, f, dx, dy)
        ELSE IF resp.clicked THEN UiClick(w, p, inp)
        ELSE IF resp.has_focus
             THEN \E a \in Read(inp.arrows, ArrowInputs) : UiFocused(w, p, inp, f, a)
        ELSE UiIdle(w, p, inp)

\* Lines 430-500: the widget is shown as a button.
\*   resp.has_focus: the button took the keyboard focus while it was added.
UiButton(w, pre, inp, resp) ==
    LET f == IF resp.has_focus THEN Some(w) ELSE focus
        p == [pre EXCEPT !.resp = resp]
    IN  IF resp.clicked THEN UiClick(w, p, inp)
        ELSE IF resp.dragged
             THEN \E dx \in Deltas, dy \in Deltas : UiDrag(w, p, inp, f, dx, dy)
        ELSE IF resp.has_focus
             THEN \E a \in Read(inp.arrows, ArrowInputs) : UiFocused(w, p, inp, f, a)
        ELSE UiIdle(w, p, inp)

\* Lines 358-507: one update of widget w. Widgets are added in the order of
\* their ids, each at most once a frame.
Ui(w) ==
    /\ inFrame /\ ~crashed
    /\ \A r \in ran : r < w
    /\ \E being_dragged \in BOOLEAN :
       \E shift_only \in IF being_dragged THEN Read(input.shift_only, user.shift) ELSE {FALSE} :
       \E pre \in {Prelude(w, shift_only, being_dragged)} :
        LET inp == IF being_dragged THEN [input EXCEPT !.shift_only = Some(shift_only)]
                   ELSE input
        IN  IF pre.prec.panic THEN UiPanic(w, pre, inp)
            ELSE IF has_focus(focus, w)
                 THEN \E typed \in user.texts \cup {Keep}, enter \in Read(inp.enter, BOOLEAN) :
                        UiTextEdit(w, pre, inp, typed, enter)
            ELSE \E resp \in Responses : UiButton(w, pre, inp, resp)

\* ------------------------------------------------------------------------
\* MonoState::end_frame, run by the context after the frame's widgets
\* ------------------------------------------------------------------------

\* The reset at the end of every frame.
edge_every_frame(ptr) == TRUE

\* The reset on a press only.
edge_pressed_only(ptr) == ptr.any_pressed

\* Line 21
pointer_edge(ptr) == ptr.any_pressed \/ ptr.any_released

EndFrame ==
    /\ inFrame /\ ~crashed
    /\ \E ptr \in PointerInputs :
        /\ last_dragged_id' = IF pointer_edge(ptr) THEN None ELSE last_dragged_id
        /\ last_dragged_value' = IF pointer_edge(ptr) THEN None ELSE last_dragged_value
        /\ edit_string' = edit_string
        /\ gesture' = IF ptr.any_pressed \/ ptr.any_released THEN None ELSE gesture
        /\ last' = [NoLast EXCEPT !.op = "end_frame",
                                  !.any_pressed = ptr.any_pressed,
                                  !.any_released = ptr.any_released,
                                  !.pre_id = last_dragged_id,
                                  !.pre_val = last_dragged_value,
                                  !.pre_edit = edit_string]
    /\ inFrame' = FALSE
    /\ input' = UnreadInput
    /\ UNCHANGED <<cfg, aim_radius, user, value, focus, ran, crashed, editing, carry, clampVars, out>>

Next == BeginFrame \/ (\E w \in Shown : Ui(w)) \/ EndFrame

Spec == Init /\ [][Next]_vars

\* ------------------------------------------------------------------------
\* clamp_to_range on its own, over sample values of every kind
\* ------------------------------------------------------------------------

\* f64::MAX
MaxFinite == F(InfMag - 1)

ClampSamples ==
    {NegNaN, NegInf, F(-25 * Scale), F(-5 * Scale), F(-Scale), NegZero, PosZero, F(Scale),
     F(5 * Scale), F(10 * Scale), F(15 * Scale), F(25 * Scale), MaxFinite, PosInf, NaN}

NoWindow ==
    [cfg |-> <<>>, value |-> <<>>, aim_radius |-> PosZero, texts |-> {}, shift |-> {FALSE}]

InitClamp ==
    /\ InitWindow(NoWindow)
    /\ cx \in ClampSamples /\ clo \in ClampSamples /\ chi \in ClampSamples
    /\ cres = None
    /\ out = None

ClampCall ==
    /\ cres = None
    /\ cres' = Some(clamp_to_range(cx, clo, chi))
    /\ UNCHANGED <<cx, clo, chi, widgetVars, out>>

NextClamp == ClampCall

SpecClamp == InitClamp /\ [][NextClamp]_vars

\* ------------------------------------------------------------------------
\* The integer presets on their own: the builder call, then the formatter
\* and the parser it installed applied to the bound value
\* ------------------------------------------------------------------------

MaxWidth == 3

PresetCalls ==
    {call \in [preset : {"binary", "octal", "hexadecimal"}, min_width : 0..MaxWidth,
               twos_complement : BOOLEAN, upper : BOOLEAN] :
        call.upper => call.preset = "hexadecimal"}

\* The whole numbers bound to the widget.
PresetValues ==
    {F(n * Scale) : n \in {-MaxWhole, -300, -16, -9, -8, -1, 0, 1, 7, 8, 15, 16, 255, MaxWhole}}

Build(call) ==
    CASE call.preset = "binary" ->
            binary(DefaultConfig, call.min_width, call.twos_complement)
      [] call.preset = "octal" ->
            octal(DefaultConfig, call.min_width, call.twos_complement)
      [] call.preset = "hexadecimal" ->
            hexadecimal(DefaultConfig, call.min_width, call.twos_complement, call.upper)

InitPreset ==
    /\ InitWindow(NoWindow)
    /\ cx = PosZero /\ clo = PosZero /\ chi = PosZero /\ cres = None
    /\ out = None

\* DragValue::new(&mut n).binary(..) and the like; a failed assert ends the
\* program before the widget is added.
BuildPreset ==
    /\ out = None /\ ~crashed
    /\ \E call \in PresetCalls, n \in PresetValues :
        LET c == Build(call)
        IN  /\ out' = Some([call |-> call, done |-> FALSE, text |-> <<>>, parsed |-> None])
            /\ IF c.assert_failed
               THEN crashed' = TRUE /\ UNCHANGED <<cfg, value>>
               ELSE cfg' = <<c>> /\ value' = <<n>> /\ crashed' = FALSE
    /\ UNCHANGED <<aim_radius, user, frameVars, clampVars>>

\* The text of the bound value (lines 386-395), given to the parser
\* (lines 414-417).
RoundTrip ==
    /\ out # None /\ ~crashed /\ ~out[1].done
    /\ LET prec == Precision(cfg[1], aim_radius, FALSE)
           text == value_text_of(cfg[1], value[1], prec.auto_decimals, prec.max_decimals)
       IN  out' = Some([out[1] EXCEPT !.done = TRUE, !.text = text,
                                      !.parsed = parse_text(cfg[1], text)])
    /\ UNCHANGED <<widgetVars, clampVars>>

NextPreset == BuildPreset \/ RoundTrip

SpecPreset == InitPreset /\ [][NextPreset]_vars

\* ------------------------------------------------------------------------
\* The precision inference on its own: two widgets that differ in speed
\* only, under one aim radius, with and without slow mode
\* ------------------------------------------------------------------------

MaxMinDecimals == 3

SpeedSamples ==
    {PosZero, F(1), F(10), F(-10), F(Scale), F(-Scale), F(10 * Scale), F(-1000 * Scale),
     PosInf, NaN}

AimSamples == {PosZero, F(1), F(Scale), F(16 * Scale), F(-Scale), PosInf, NaN}

DecimalOverrides == {None} \cup {Some(n) : n \in 0..MaxMinDecimals}

InitPrecision ==
    /\ \E a \in SpeedSamples, b \in SpeedSamples, aim \in AimSamples,
          mind \in 0..MaxMinDecimals, maxd \in DecimalOverrides :
        LET c == [with_min_decimals(DefaultConfig, mind) EXCEPT !.max_decimals = maxd]
        IN  InitWindow([cfg |-> <<with_speed(c, a), with_speed(c, b)>>,
                        value |-> <<PosZero, PosZero>>,
                        aim_radius |-> aim, texts |-> {}, shift |-> {FALSE}])
    /\ cx = PosZero /\ clo = PosZero /\ chi = PosZero /\ cres = None
    /\ out = None

\* Lines 379-385 for each widget, without and with slow mode.
InferPrecision ==
    /\ out = None
    /\ out' = Some([fast |-> [w \in Shown |-> Precision(cfg[w], aim_radius, FALSE)],
                    slow |-> [w \in Shown |-> Precision(cfg[w], aim_radius, TRUE)]])
    /\ UNCHANGED <<widgetVars, clampVars>>

NextPrecision == InferPrecision

SpecPrecision == InitPrecision /\ [][NextPrecision]_vars

\* ------------------------------------------------------------------------
\* One slow gesture: a widget with a positive speed and no clamp range is
\* dragged frame after frame in one direction, each frame adding less than
\* the rounding step, with no pointer press or release in between.
\* ------------------------------------------------------------------------

\* 10^(-decimals), the step round_to_decimals rounds to, in units.
Granule(decimals) == IF decimals > ScaleDigits THEN 0 ELSE Scale \div Pow10(decimals)

\* The gestures: the widget (speed 0.1, or speed 1.0 dragged with Shift held,
\* shown with no decimals; speed 0.01 shown with one decimal), the aim
\* radius, the value the gesture starts from and its direction.
SlowGestures ==
    [cfg : {with_max_decimals(with_speed(DefaultConfig, F(10)), 0)},
     shift : {{FALSE}}, aim : {PosZero, F(Scale)},
     start : {PosZero, F(37), PosInf, NegInf}, dir : {-1, 1}]
    \cup
    [cfg : {with_max_decimals(DefaultConfig, 0)},
     shift : {{TRUE}}, aim : {PosZero, F(Scale)},
     start : {NegZero, PosInf}, dir : {1}]
    \cup
    [cfg : {with_max_decimals(with_speed(DefaultConfig, F(1)), 1)},
     shift : {{FALSE}}, aim : {F(Scale)},
     start : {F(MaxAcc - 10), F(MaxAcc - 17)}, dir : {1}]

InitSlowDrag ==
    /\ \E g \in SlowGestures :
        /\ InitWindow([cfg |-> <<g.cfg>>, value |-> <<g.start>>, aim_radius |-> g.aim,
                       texts |-> {}, shift |-> g.shift])
        /\ out = Some([start |-> g.start, dir |-> g.dir])
    /\ cx = PosZero /\ clo = PosZero /\ chi = PosZero /\ cres = None

\* The frame begins; the widget is not text-editing.
SlowBegin == BeginFrame /\ focus' = None

\* Lines 358-507, through the drag branch of lines 452-485: an update of the
\* widget while it is being dragged along x in the gesture's direction; the
\* value delta of the frame is smaller than the rounding step.
SlowDragFrame ==
    /\ inFrame /\ ~crashed
    /\ 1 \notin ran
    /\ ~has_focus(focus, 1)
    /\ \E shift_only \in Read(input.shift_only, user.shift), dx \in 1..MaxDelta :
       \E pre \in {[Prelude(1, shift_only, TRUE)
                        EXCEPT !.resp = [NoResponse EXCEPT !.dragged = TRUE]]} :
          /\ ~pre.prec.panic
          /\ UiDrag(1, pre, [input EXCEPT !.shift_only = Some(shift_only)], focus,
                    out[1].dir * dx, 0)
    /\ last'.accumulated
    /\ Mag(last'.delta_value) < Granule(last'.prec.auto_decimals)

\* Lines 19-26: the frame ends with no pointer press or release.
SlowEnd ==
    /\ ran = Shown
    /\ EndFrame
    /\ ~last'.any_pressed /\ ~last'.any_released

NextSlowDrag == SlowBegin \/ SlowDragFrame \/ SlowEnd

\* The gesture goes on: a frame that can be taken is taken.
SpecSlowDrag == InitSlowDrag /\ [][NextSlowDrag]_vars /\ WF_vars(NextSlowDrag)

\* ------------------------------------------------------------------------
\* Properties
\* ------------------------------------------------------------------------

\* The clamp range in numeric order.
RangeMin(c) == IF FLe(c.lo, c.hi) THEN c.lo ELSE c.hi
RangeMax(c) == IF FLe(c.lo, c.hi) THEN c.hi ELSE c.lo
InRange(v, c) == FLe(RangeMin(c), v) /\ FLe(v, RangeMax(c))

AfterUi == last.op = "ui"
Completed == AfterUi /\ last.mode # "panic"

\* C1: after every update of a widget, whatever its mode and inputs, the
\* value bound to it lies within its clamp range taken in numeric order,
\* also when the value was out of range before the update and when the drag's
\* running value is outside the range.
C1_ValueInRange ==
    AfterUi => InRange(value[last.w], cfg[last.w])

\* C1 witness: a drag frame that found the value out of range and leaves the
\* running value outside the range.
C1_Witness ==
    /\ AfterUi /\ last.mode = "drag" /\ last.accumulated
    /\ ~InRange(last.old_value, cfg[last.w])
    /\ ~InRange(last_dragged_value[1], cfg[last.w])

\* C2: clamp_to_range equals the reference clamp over the total order: with
\* (a, b) the range in total order, the result is a when x <= a, b when
\* x >= b and x otherwise; so it lies in [a, b], is the same for the range
\* given in either direction, and an x totally equal to a bound gives that
\* bound.
C2_TotalOrderClamp ==
    cres # None =>
        LET a == IF clo <= chi THEN clo ELSE chi
            b == IF clo <= chi THEN chi ELSE clo
            r == cres[1]
        IN  /\ r = (IF cx <= a THEN a ELSE IF cx >= b THEN b ELSE cx)
            /\ a <= r /\ r <= b
            /\ r = clamp_to_range(cx, chi, clo)
            /\ (cx = a => r = a)
            /\ (cx = b /\ a # b => r = b)

\* C2 witness: clamp(-0.0, 0.0..=MAX) is +0.0.
C2_Witness ==
    cx = NegZero /\ clo = PosZero /\ chi = MaxFinite /\ cres = Some(PosZero)

\* C3: when end_frame ran in a frame with a pointer press or a pointer
\* release, last_dragged_id and last_dragged_value are None afterwards.
C3_ResetOnPointerEdge ==
    (last.op = "end_frame" /\ (last.any_pressed \/ last.any_released)) =>
        (last_dragged_id = None /\ last_dragged_value = None)

\* C3 witness: end_frame with a release only, and a drag session before it.
C3_Witness ==
    /\ last.op = "end_frame" /\ last.any_released /\ ~last.any_pressed
    /\ last.pre_id # None /\ last.pre_val # None
    /\ last_dragged_id = None

\* C4: a drag frame of widget W continues from the stored running value only
\* if W wrote it and no pointer press or release came since; otherwise its
\* baseline is W's clamped bound value.
C4_NoBleed ==
    (AfterUi /\ last.mode = "drag" /\ last.accumulated /\ ~last.same_gesture) =>
        last.baseline = last.value0

\* C4 witness: W drags while the session state holds another widget's
\* running value, different from W's value.
C4_Witness ==
    /\ AfterUi /\ last.mode = "drag" /\ last.accumulated /\ ~last.same_gesture
    /\ last.pre_id # None /\ last.pre_id # Some(last.w)
    /\ last.pre_val # None /\ last.pre_val # Some(last.value0)

\* C5: after each drag frame with a nonzero value delta the session state
\* holds this widget's id and the running value of the gesture, the clamped
\* value at the gesture's first frame plus the sum of (dx - dy) * effective
\* speed over its frames: unrounded and unclamped.
C5_FullPrecision ==
    (AfterUi /\ last.mode = "drag" /\ last.accumulated) =>
        /\ last_dragged_id = Some(last.w)
        /\ gesture # None /\ gesture[1].w = last.w
        /\ last_dragged_value = Some(gesture[1].running)

\* C5 witness: a later frame of a gesture whose running value is neither
\* the value committed to the accessor nor inside the clamp range.
C5_Witness ==
    /\ AfterUi /\ last.mode = "drag" /\ last.accumulated /\ last.same_gesture
    /\ last_dragged_value # Some(value[last.w])
    /\ round_to_decimals(last_dragged_value[1], last.prec.auto_decimals)
         # last_dragged_value[1]

C7_ChangedFlag ==
    Completed => (last.changed <=> FNe(value[last.w], last.old_value))

\* C7 witness: an update that only clamps an out-of-range value reports
\* changed.
C7_Witness ==
    /\ Completed /\ last.mode = "idle" /\ Len(last.writes) = 1
    /\ ~InRange(last.old_value, cfg[last.w]) /\ last.changed

\* The parser line 414 selects for a widget, applied to a text.
ParserOf(c, t) ==
    IF c.custom_parser # None THEN from_str_radix(t, c.custom_parser[1].radix)
    ELSE ParseF64(t)

\* The storage as the initial clamp leaves it.
AfterInitialClamp(old_value, value0) == IF FNe(old_value, value0) THEN value0 ELSE old_value

\* C8: in a frame where the widget holds text-edit focus, when the parser
\* (the custom one if set, else the decimal one) returns p for the text, the
\* accessor holds clamp_to_range(p, clamp_range) after the frame, with or
\* without Enter; when it returns None the text-edit step writes nothing and
\* the value is the one the initial clamp left.
C8_TextEditParse ==
    (AfterUi /\ last.mode = "edit") =>
        LET c == cfg[last.w]
            p == ParserOf(c, last.text)
            clamped == AfterInitialClamp(last.old_value, last.value0)
        IN  IF p # None
            THEN /\ value[last.w] = clamp_to_range(p[1], c.lo, c.hi)
                 /\ Len(last.writes) >= 1
                 /\ last.writes[Len(last.writes)] = value[last.w]
            ELSE /\ value[last.w] = clamped
                 /\ last.writes = (IF FNe(last.old_value, last.value0)
                                   THEN <<last.value0>> ELSE <<>>)

\* C8 witness: Enter pressed in a frame whose text the custom parser reads as
\* a value above the range.
C8_Witness ==
    /\ AfterUi /\ last.mode = "edit" /\ last.enter
    /\ cfg[last.w].custom_parser # None
    /\ last.parsed # None
    /\ value[last.w] # last.parsed[1]
    /\ value[last.w] = cfg[last.w].hi

\* C8 witness for the failed parse: a text the decimal parser would read
\* but the custom parser rejects leaves the value alone.
C8_WitnessNone ==
    /\ AfterUi /\ last.mode = "edit"
    /\ cfg[last.w].custom_parser # None
    /\ last.parsed = None /\ ParseF64(last.text) # None
    /\ last.writes = <<>>

\* C9: once the widget that was text-editing stops editing, by Enter or by
\* losing the keyboard focus in any other way, edit_string is None; so after
\* a frame whose widgets all ran and that ends with no widget holding the
\* focus the slot is empty, and
\* a widget that enters text-edit mode is seeded with the text of its own
\* value.
C9_EditStringCleared ==
    /\ (last.op = "end_frame" /\ focus = None /\ ran = Shown) => edit_string = None
    /\ (AfterUi /\ last.mode = "edit" /\ last.entering) => last.seed = last.value_text

\* C10: every update completes, and the decimal count it formats and rounds
\* with lies between min_decimals and the effective maximum (the override if
\* set, else the inferred decimals + 2).
C10_PrecisionBounds ==
    AfterUi =>
        /\ last.mode # "panic"
        /\ cfg[last.w].min_decimals <= last.prec.auto_decimals
        /\ last.prec.auto_decimals <= last.prec.max_decimals
        /\ last.prec.max_decimals
             = unwrap_or(cfg[last.w].max_decimals, last.prec.inferred + AutoHeadroom)

\* C11: for binary, octal and hexadecimal (either case), every integer n and
\* every min_width >= 1, in sign-and-magnitude and in twos-complement mode,
\* the preset's parser applied to the text its formatter gives for n returns
\* Some(n), also for negative n in twos-complement mode.
C11_RoundTrip ==
    (out # None /\ out[1].done) => out[1].parsed = Some(value[1])

\* C13: a preset called with min_width = 0 panics inside the builder: no
\* formatter or parser is installed and no widget update runs; with
\* min_width >= 1 the call succeeds and installs both a formatter and a
\* parser.
C13_MinWidthAssert ==
    out # None =>
        IF out[1].call.min_width = 0
        THEN crashed /\ cfg = <<>> /\ ran = {} /\ last = NoLast
        ELSE /\ ~crashed /\ Len(cfg) = 1
             /\ cfg[1].custom_formatter # None
             /\ cfg[1].custom_parser # None
             /\ cfg[1].custom_formatter[1].min_width = out[1].call.min_width

\* C13 witness: hexadecimal(0, ..) has panicked.
C13_Witness ==
    /\ out # None /\ out[1].call.preset = "hexadecimal" /\ out[1].call.min_width = 0
    /\ crashed /\ cfg = <<>>

\* C12: under one aim radius, min_decimals and max_decimals override, the
\* decimal count of an update that completes never increases when |speed|
\* increases, and with slow mode it is never smaller than without.
C12_PrecisionMonotone ==
    out # None =>
        /\ \A v \in Shown, w \in Shown, mode \in {"fast", "slow"} :
            (/\ FLe(FAbs(cfg[v].speed), FAbs(cfg[w].speed))
             /\ ~out[1][mode][v].panic /\ ~out[1][mode][w].panic)
                => /\ out[1][mode][w].auto_decimals <= out[1][mode][v].auto_decimals
                   /\ out[1][mode][w].inferred <= out[1][mode][v].inferred
        /\ \A w \in Shown :
            /\ out[1].slow[w].inferred >= out[1].fast[w].inferred
            /\ (~out[1].fast[w].panic /\ ~out[1].slow[w].panic)
                => out[1].slow[w].auto_decimals >= out[1].fast[w].auto_decimals

\* C12 witness: the faster widget gets strictly fewer decimals, and slow
\* mode strictly more.
C12_Witness ==
    /\ out # None
    /\ ~FLe(FAbs(cfg[2].speed), FAbs(cfg[1].speed))
    /\ ~out[1].fast[1].panic /\ ~out[1].fast[2].panic /\ ~out[1].slow[1].panic
    /\ out[1].fast[2].auto_decimals < out[1].fast[1].auto_decimals
    /\ out[1].slow[1].auto_decimals > out[1].fast[1].auto_decimals

\* Line 379 with line 458: aim_radius * speed, the tolerance of the smart aim
\* around the running value, as the history sees it.
ExpectedAim(w, slow) ==
    FMul(aim_radius, IF slow THEN FDivSlow(cfg[w].speed) ELSE cfg[w].speed)

\* The drag accumulator has run on the last frame: the accessor was written
\* with a smart-aim pick around the running value, rounded and clamped, and
\* the session records the widget and the running value.
Accumulated ==
    LET w == last.w
        running == FAdd(last.baseline, ExpectedDelta(w, last.delta_points, last.slow))
        aim == ExpectedAim(w, last.slow)
    IN  /\ last.accumulated
        /\ last.writes # <<>>
        /\ value[w] = last.writes[Len(last.writes)]
        /\ \E picked \in best_in_range_f64(FSub(running, aim), FAdd(running, aim)) :
              value[w] = clamp_to_range(round_to_decimals(picked, last.prec.auto_decimals),
                                        cfg[w].lo, cfg[w].hi)
        /\ last_dragged_id = Some(w)
        /\ last_dragged_value = Some(running)

\* C14 as stated: in every drag frame whose pointer drag delta (a vector) is
\* nonzero the drag accumulator runs: the accessor is written with the new
\* rounded, clamped value and the session records the widget's id and the
\* new running value.
C14_NonzeroDragAccumulates ==
    (AfterUi /\ last.mode = "drag" /\ last.moved) => Accumulated

\* C14 amended: in every drag frame whose value delta (x - y) * speed, with
\* the speed divided by ten in slow mode, is nonzero the drag accumulator
\* runs: the accessor is written with the new rounded, clamped value and the
\* session records the widget's id and the new running value.
C14_NonzeroValueDeltaAccumulates ==
    (AfterUi /\ last.mode = "drag"
        /\ FNe(ExpectedDelta(last.w, last.delta_points, last.slow), PosZero)) => Accumulated

\* C14 witness: a drag frame with a negative value delta on a session that
\* named no widget: the accumulator ran and the session names the widget.
C14_Witness ==
    /\ AfterUi /\ last.mode = "drag" /\ last.moved
    /\ IsNegative(ExpectedDelta(last.w, last.delta_points, last.slow))
    /\ FNe(ExpectedDelta(last.w, last.delta_points, last.slow), PosZero)
    /\ last.pre_id = None
    /\ Accumulated

\* What the initial clamp alone writes in the last update.
InitialWrites == IF FNe(last.old_value, last.value0) THEN <<last.value0>> ELSE <<>>

\* C16: after an update in which the widget held text-edit focus: if Enter
\* was pressed the focus on the widget's edit id is surrendered and
\* edit_string is None; otherwise the widget keeps the focus and edit_string
\* is Some(t) for the text t the text surface returned; and an edit frame of
\* a widget that kept the focus since its previous edit frame is seeded with
\* that frame's text.
C16_EditFrameFocusAndText ==
    (AfterUi /\ last.mode = "edit") =>
        /\ IF last.enter
           THEN focus # Some(last.w) /\ edit_string = None
           ELSE focus = Some(last.w) /\ edit_string = Some(last.text)
        /\ (last.carry # None /\ last.carry[1].kind = "edited") =>
              last.seed = last.carry[1].text

\* C16 witness: a second edit frame in a row, seeded with the text the first
\* one returned, which is not the text of the value; Enter is not pressed and
\* the widget keeps the focus and the text.
C16_Witness ==
    /\ AfterUi /\ last.mode = "edit" /\ ~last.enter
    /\ last.carry # None /\ last.carry[1].kind = "edited"
    /\ last.seed = last.carry[1].text
    /\ last.seed # last.value_text
    /\ focus = Some(last.w) /\ edit_string = Some(last.text)

\* C17: an update of a widget without text-edit focus whose button reports
\* clicked requests the focus for the widget's edit id and sets edit_string
\* to None; no drag accumulation and no nudge happens even when the response
\* is also dragged or focused; the value is written by the initial clamp
\* only and last_dragged_id / last_dragged_value are not modified; and when
\* the widget still holds the focus in its next update, the text it edits
\* is its formatted value.
C17_ClickToEdit ==
    /\ (Completed /\ ~last.had_focus /\ last.resp.clicked) =>
          /\ last.mode = "click"
          /\ focus = Some(last.w)
          /\ edit_string = None
          /\ ~last.accumulated
          /\ last.writes = InitialWrites
          /\ value[last.w] = AfterInitialClamp(last.old_value, last.value0)
          /\ last_dragged_id = last.pre_id
          /\ last_dragged_value = last.pre_val
    /\ (AfterUi /\ last.mode = "edit" /\ last.carry # None /\ last.carry[1].kind = "clicked") =>
          last.seed = last.value_text

\* C17 witness: a click reported together with dragged and focused, while
\* the session names the widget and edit_string holds a text.
C17_Witness ==
    /\ Completed /\ ~last.had_focus
    /\ last.resp.clicked /\ last.resp.dragged /\ last.resp.has_focus
    /\ last.mode = "click"
    /\ last.pre_id = Some(last.w) /\ last_dragged_id = Some(last.w)
    /\ last.pre_edit # None /\ edit_string = None
    /\ focus = Some(last.w)

\* C18: an update of a widget that is not text-editing, not clicked and not
\* dragged but has the focus, with change = Up + Right - Down - Left presses:
\* a nonzero change sets the accessor to
\* clamp_to_range(round_to_decimals(value + speed * change, auto_decimals))
\* with the configured speed, also in slow mode; a zero change writes
\* nothing; the drag session and edit_string are left as they were.
C18_KeyboardNudge ==
    (AfterUi /\ last.mode = "focus") =>
        LET c == cfg[last.w]
            a == input.arrows[1]
            change == a.up + a.right - a.down - a.left
            target == clamp_to_range(
                          round_to_decimals(FAdd(last.value0, FMulInt(change, c.speed)),
                                            last.prec.auto_decimals),
                          c.lo, c.hi)
        IN  /\ input.arrows # None
            /\ last.change = change
            /\ IF change # 0
               THEN last.writes = InitialWrites \o <<target>> /\ value[last.w] = target
               ELSE last.writes = InitialWrites
                    /\ value[last.w] = AfterInitialClamp(last.old_value, last.value0)
            /\ last_dragged_id = last.pre_id
            /\ last_dragged_value = last.pre_val
            /\ edit_string = last.pre_edit

\* C18 witness: a nudge in slow mode that moves the value by the whole
\* configured speed.
C18_Witness ==
    /\ AfterUi /\ last.mode = "focus" /\ last.slow
    /\ last.change # 0
    /\ FNe(value[last.w], last.value0)
    /\ value[last.w] = FAdd(last.value0, FMulInt(last.change, cfg[last.w].speed))

\* C19: slow mode is active in an update exactly when Shift is the only
\* modifier held and the widget is the one being dragged; the inferred
\* decimals are the non-slow inference plus one when it is active and the
\* non-slow inference when not, before the clamp into the precision bounds;
\* a drag frame with delta d adds d * speed / 10 to the running value and
\* aims within aim_radius * speed / 10 when it is active, d * speed and
\* aim_radius * speed when not.
C19_SlowSpeed ==
    AfterUi =>
        LET c == cfg[last.w]
            s == IF last.slow THEN FDivSlow(c.speed) ELSE c.speed
        IN  /\ last.slow <=> (last.being_dragged /\ input.shift_only = Some(TRUE))
            /\ last.prec.inferred
                 = auto_decimals_raw(aim_radius, c.speed) + (IF last.slow THEN 1 ELSE 0)
            /\ last.mode = "drag" => last.delta_value = FMulInt(last.delta_points, s)
            /\ (last.mode = "drag" /\ last.accumulated) =>
                  /\ last.stored = FAdd(last.baseline, FMulInt(last.delta_points, s))
                  /\ last_dragged_value = Some(last.stored)
                  /\ last.aim_delta = FMul(aim_radius, s)

\* C19 witness: a slow drag frame that adds a tenth of what the frame would
\* add at full speed, with one more inferred decimal.
C19_Witness ==
    /\ AfterUi /\ last.mode = "drag" /\ last.accumulated /\ last.slow
    /\ last.delta_value = FMulInt(last.delta_points, FDivSlow(cfg[last.w].speed))
    /\ last.delta_value # FMulInt(last.delta_points, cfg[last.w].speed)
    /\ last.aim_delta # FMul(aim_radius, cfg[last.w].speed)
    /\ last.prec.inferred = auto_decimals_raw(aim_radius, cfg[last.w].speed) + 1

\* The branch the dispatch of lines 400-501 selects.
ExpectedMode ==
    IF last.had_focus THEN "edit"
    ELSE IF last.resp.clicked THEN "click"
    ELSE IF last.resp.dragged THEN "drag"
    ELSE IF last.resp.has_focus THEN "focus"
    ELSE "idle"

\* C20: every update that reaches the dispatch takes exactly one branch:
\* text-edit when the widget holds text-edit focus, else click, else drag,
\* else keyboard focus, else none; a text-edit frame leaves last_dragged_id
\* and last_dragged_value as they were and a drag frame leaves edit_string
\* as it was.
C20_ModeDispatch ==
    Completed =>
        /\ last.mode = ExpectedMode
        /\ last.mode = "edit" =>
              last_dragged_id = last.pre_id /\ last_dragged_value = last.pre_val
        /\ last.mode = "drag" => edit_string = last.pre_edit
        /\ last.mode # "drag" => ~last.accumulated
        /\ last.mode \notin {"edit", "click"} => edit_string = last.pre_edit
        /\ last.mode \in {"click", "idle"} => last.writes = InitialWrites

\* C20 witness: a drag frame that accumulates while edit_string holds a
\* text, reported together with focused.
C20_Witness ==
    /\ Completed /\ last.mode = "drag" /\ last.accumulated
    /\ last.resp.has_focus
    /\ last.pre_edit # None /\ edit_string = last.pre_edit
    /\ last_dragged_id = Some(last.w)

\* The last step was a drag frame that ran the accumulator.
DragFrame == AfterUi /\ last.mode = "drag" /\ last.accumulated

\* The committed value is within aim_radius * speed + 0.5 * 10^(-auto_decimals)
\* of the running value (or equal to it).
CloseToRunning ==
    LET w == last.w
        running == last_dragged_value[1]
        aim == ExpectedAim(w, last.slow)
    IN  \/ FEq(value[w], running)
        \/ /\ IsFinite(value[w]) /\ IsFinite(running) /\ IsFinite(aim)
           /\ 2 * (Num(value[w]) - Num(running)) <= 2 * Mag(aim) + Granule(last.prec.auto_decimals)
           /\ 2 * (Num(running) - Num(value[w])) <= 2 * Mag(aim) + Granule(last.prec.auto_decimals)

\* The bound value is no longer the one the gesture started from.
Differs == FNe(value[1], out[1].start)

\* C15 as stated: in one gesture of same-sign drag frames that each add a
\* nonzero value delta below the rounding step, on a widget with a positive
\* speed and no clamp range, the committed value is at every drag frame
\* within aim_radius * speed + 0.5 * 10^(-auto_decimals) of the running
\* value, and it eventually differs from the value at the start.
C15_SlowDragDoesNotStick ==
    /\ [](DragFrame => CloseToRunning)
    /\ <>Differs

\* C15 amended: the same, for a gesture that starts from a finite value.
C15_SlowDragFromFinite ==
    /\ [](IsFinite(out[1].start) => (DragFrame => CloseToRunning))
    /\ <>(IsFinite(out[1].start) => Differs)

\* C15 witness: a later frame of the gesture commits the first value that
\* differs from the start, after frames that left the committed value where
\* it was while the running value moved.
C15_Witness ==
    /\ out # None /\ IsFinite(out[1].start)
    /\ DragFrame /\ last.same_gesture
    /\ Mag(last.delta_value) < Granule(last.prec.auto_decimals)
    /\ FEq(last.old_value, out[1].start)
    /\ FNe(last.pre_val[1], out[1].start)
    /\ Differs
    /\ CloseToRunning

\* C21: when end_frame ran in a frame with no pointer press and no pointer
\* release, last_dragged_id, last_dragged_value and edit_string are as they
\* were before it; when it ran in a frame with a press or a release,
\* edit_string is still as it was.
C21_EndFrameKeeps ==
    last.op = "end_frame" =>
        /\ edit_string = last.pre_edit
        /\ (~last.any_pressed /\ ~last.any_released) =>
              /\ last_dragged_id = last.pre_id
              /\ last_dragged_value = last.pre_val

\* C21 witness: end_frame with no press and no release while a drag session
\* and an edit text are both held: all three survive.
C21_Witness ==
    /\ last.op = "end_frame" /\ ~last.any_pressed /\ ~last.any_released
    /\ last.pre_id # None /\ last.pre_val # None /\ last.pre_edit # None
    /\ last_dragged_id = last.pre_id
    /\ last_dragged_value = last.pre_val
    /\ edit_string = last.pre_edit

====
